---- MODULE Spec2Model ----
(***************************************************************************)
(* Model of the currency-swap form of src/src/problem2/script.js: the      *)
(* static rate table, the one-shot price fetch, the rate table builder,    *)
(* the conversion pipeline and the form's event handlers.  The two other  *)
(* programs of the repository, the three sums of src/src/problem1/index.js *)
(* and the balance list of src/src/problem3/refactored.tsx, are pure       *)
(* functions: each is an operator, applied to inputs the initial state     *)
(* draws.                                                                  *)
(*                                                                         *)
(* Numbers.  A JavaScript number is modelled exactly (no binary floating   *)
(* point error): a finite value is units + milli/1000 with 0 <= milli <    *)
(* 1000, a rate is a fraction <<num, den>>, an amount of cents that can    *)
(* exceed 2^31 is a pair <<units, cents>>.                                 *)
(***************************************************************************)
EXTENDS Integers, Sequences, FiniteSets, TLC

VARIABLES
    exchangeRates,   \* script.js:30  the rate table in use: key -> <<num, den>>
    pricesCache,     \* script.js:31  Null or Some(snapshot)
    fetchState,      \* position of initializeRates(): "pending" at its await, then "done"
    initRejected,    \* TRUE iff the promise of initializeRates() rejected
    options,         \* the currencies offered by both selectors
    fromCurrency,    \* #from-currency .value
    toCurrency,      \* #to-currency .value
    fromIconAlt,     \* #from-icon .alt
    toIconAlt,       \* #to-icon .alt
    inputAmount,     \* parseFloat(#input-amount .value)
    outputAmount,    \* #output-amount .value: Empty or a two-decimal text
    errorMessage,    \* the message #error-message displays, "" while it is hidden
    confirmDisabled, \* #confirm-swap .disabled
    pendingSubmits,  \* handleSwapSubmit calls suspended at their await
    toast,           \* type of the last toast shown: "none", "success", "error"
    swaps,           \* clicks on #swap-direction since the amount was last typed
    argN,            \* index.js: the argument n the three sums are called with
    sums,            \* index.js: per function, Null or Some(the value it returned)
    balances,        \* refactored.tsx:19  Null or Some(the list useWalletBalances() gave)
    memo             \* refactored.tsx:39  Null or Some(the list useMemo holds)

\* the state of the two programs apart from the form
exerciseVars == <<argN, sums, balances, memo>>

vars == <<exchangeRates, pricesCache, fetchState, initRejected, options,
          fromCurrency, toCurrency, fromIconAlt, toIconAlt, inputAmount,
          outputAmount, errorMessage, confirmDisabled, pendingSubmits,
          toast, swaps, argN, sums, balances, memo>>

-----------------------------------------------------------------------------
(* Bounds of the model *)

\* prices of a snapshot range over 0..MaxPrice (and null, and missing)
MaxPrice == 2
\* cap on the number of handleSwapSubmit calls suspended at once
MaxPending == 2
\* typed amounts have a whole number of cents in 0..MaxCents, or a fraction
\* of a cent
MaxCents == 1
\* cap on the direction swaps between two typed amounts
MaxSwaps == 1

-----------------------------------------------------------------------------
(* Values *)

\* JavaScript null, and a non-null value x
Null == <<>>
Some(x) == <<x>>

\* validateInput's ceiling
MAX_AMOUNT == 1000000

NaN == [kind |-> "nan", units |-> 0, milli |-> 0]
Infinity == [kind |-> "inf", units |-> 0, milli |-> 0]
NegInfinity == [kind |-> "ninf", units |-> 0, milli |-> 0]
\* a value that is not of type number (validateInput's typeof test)
NotANumber == [kind |-> "string", units |-> 0, milli |-> 0]
Finite(u, m) == [kind |-> "num", units |-> u, milli |-> m]

\* the text of an empty field, and a text with two decimals (toFixed(2))
Empty == [kind |-> "empty", units |-> 0, cents |-> 0]
Text2(u, c) == [kind |-> "dec", units |-> u, cents |-> c]

IsNaN(v) == v.kind = "nan"
IsZero(v) == v.kind = "num" /\ v.units = 0 /\ v.milli = 0
IsNegative(v) == v.kind = "ninf" \/ (v.kind = "num" /\ v.units < 0)
ExceedsMax(v) ==
    \/ v.kind = "inf"
    \/ v.kind = "num" /\ (v.units > MAX_AMOUNT \/ (v.units = MAX_AMOUNT /\ v.milli > 0))

\* parseFloat of a field's text
ParseFloat(text) ==
    IF text.kind = "empty" THEN NaN ELSE Finite(text.units, 10 * text.cents)

\* p / q rounded to the nearest integer, halves up (Math.round), p >= 0, q > 0
RoundDiv(p, q) == (p \div q) + (IF 2 * (p % q) >= q THEN 1 ELSE 0)

\* Math.round(x * n / d) as <<units, cents>> (the value units * 100 + cents),
\* for x >= 0: x = a * d + b, so x * n / d = a * n + b * n / d
MulRound(x, n, d) ==
    LET a == x \div d
        b == x % d
        low == (a % 100) * n + RoundDiv(b * n, d)
    IN  <<(a \div 100) * n + (low \div 100), low % 100>>

-----------------------------------------------------------------------------
(* The static table and the builder *)

FIAT == {"USD", "EUR", "GBP", "JPY"}

RateKey(from, to) == from \o "_" \o to

MOCK_RATES ==
    ("USD_EUR" :> <<85, 100>>) @@ ("USD_GBP" :> <<73, 100>>) @@
    ("USD_JPY" :> <<110, 1>>) @@ ("EUR_USD" :> <<118, 100>>) @@
    ("EUR_GBP" :> <<86, 100>>) @@ ("EUR_JPY" :> <<12953, 100>>) @@
    ("GBP_USD" :> <<137, 100>>) @@ ("GBP_EUR" :> <<116, 100>>) @@
    ("GBP_JPY" :> <<15075, 100>>) @@ ("JPY_USD" :> <<91, 10000>>) @@
    ("JPY_EUR" :> <<77, 10000>>) @@ ("JPY_GBP" :> <<66, 10000>>)

\* the symbols a snapshot may price
Tokens == {"USD", "EUR", "USDC"}

\* a snapshot: symbol -> Null or Some(price)
Snapshots ==
    UNION {[S -> {Null} \cup {Some(p) : p \in 0..MaxPrice}] : S \in SUBSET Tokens}

\* Object.keys(prices).filter(t => prices[t] !== null)
NonNullTokens(prices) == {t \in DOMAIN prices : prices[t] # Null}

\* `price && price !== 0` for the price of a non-null token
Truthy(prices, t) == prices[t][1] # 0

\* the USD-based rates (first loop); for each key the last write stands
UsdBaseRates(prices) ==
    LET priced == {t \in NonNullTokens(prices) : Truthy(prices, t)}
        keys == {RateKey("USD", t) : t \in priced} \cup {RateKey(t, "USD") : t \in priced}
    IN  [k \in keys |->
            IF \E t \in priced : k = RateKey(t, "USD")
            THEN <<prices[CHOOSE t \in priced : k = RateKey(t, "USD")][1], 1>>
            ELSE <<1, prices[CHOOSE t \in priced : k = RateKey("USD", t)][1]>>]

\* the cross rates with the quotient taken the wrong way round
CrossRates_Inverted(prices) ==
    LET pairs == {p \in NonNullTokens(prices) \X NonNullTokens(prices) :
                     /\ p[1] # p[2]
                     /\ Truthy(prices, p[1])
                     /\ Truthy(prices, p[2])}
    IN  [k \in {RateKey(p[1], p[2]) : p \in pairs} |->
            LET p == CHOOSE q \in pairs : k = RateKey(q[1], q[2])
            IN  <<prices[p[2]][1], prices[p[1]][1]>>]

\* the cross rates (second loop)
CrossRates(prices) ==
    LET pairs == {p \in NonNullTokens(prices) \X NonNullTokens(prices) :
                     /\ p[1] # p[2]
                     /\ Truthy(prices, p[1])
                     /\ Truthy(prices, p[2])}
    IN  [k \in {RateKey(p[1], p[2]) : p \in pairs} |->
            LET p == CHOOSE q \in pairs : k = RateKey(q[1], q[2])
            IN  <<prices[p[1]][1], prices[p[2]][1]>>]

\* buildExchangeRates with the static rates written first, so that a derived
\* rate replaces the static rate of the same key
buildExchangeRates_StaticFirst(prices) ==
    IF prices = Null \/ DOMAIN prices[1] = {}
    THEN MOCK_RATES
    ELSE LET rates == CrossRates(prices[1]) @@ UsdBaseRates(prices[1]) @@ MOCK_RATES
         IN  IF DOMAIN rates # {} THEN rates ELSE MOCK_RATES

\* buildExchangeRates(prices): later writes to a key replace earlier ones
buildExchangeRates(prices) ==
    IF prices = Null \/ DOMAIN prices[1] = {}
    THEN MOCK_RATES
    ELSE LET rates == MOCK_RATES @@ CrossRates(prices[1]) @@ UsdBaseRates(prices[1])
         IN  IF DOMAIN rates # {} THEN rates ELSE MOCK_RATES

-----------------------------------------------------------------------------
(* The conversion pipeline *)

Return(v) == [threw |-> FALSE, value |-> v, message |-> ""]
Throw(msg) == [threw |-> TRUE, value |-> 0, message |-> msg]

\* validateInput with the ceiling itself refused
validateInput_ExclusiveCeiling(value) ==
    IF value.kind = "string" \/ IsNaN(value)
    THEN Throw("Input must be a valid number")
    ELSE IF IsNegative(value)
    THEN Throw("Input must be non-negative")
    ELSE IF ExceedsMax(value) \/ (value.kind = "num" /\ value.units = MAX_AMOUNT)
    THEN Throw("Amount too large")
    ELSE Return(value)

validateInput(value) ==
    IF value.kind = "string" \/ IsNaN(value)
    THEN Throw("Input must be a valid number")
    ELSE IF IsNegative(value)
    THEN Throw("Input must be non-negative")
    ELSE IF ExceedsMax(value)
    THEN Throw("Amount too large")
    ELSE Return(value)

\* Math.round(amount * 100)
convertToCents(amount) == amount.units * 100 + RoundDiv(amount.milli, 10)

\* cents / 100, for cents given as <<units, cents>>
convertFromCents(cents) == Finite(cents[1], 10 * cents[2])

\* Number.prototype.toFixed(2) of a finite value
ToFixed2(v) ==
    LET c == RoundDiv(v.milli, 10)
    IN  IF c = 100 THEN Text2(v.units + 1, 0) ELSE Text2(v.units, c)

\* getConversionRate falling back to rate 1 for a pair the table lacks
getConversionRate_DefaultRate(from, to) ==
    IF from = to \/ RateKey(from, to) \notin DOMAIN exchangeRates
    THEN Return(<<1, 1>>)
    ELSE Return(exchangeRates[RateKey(from, to)])

\* getConversionRate without the short-circuit for from = to
getConversionRate_NoIdentity(from, to) ==
    IF RateKey(from, to) \notin DOMAIN exchangeRates
    THEN Throw("Exchange rate not available for " \o RateKey(from, to))
    ELSE Return(exchangeRates[RateKey(from, to)])

\* getConversionRate reading the rate of the opposite direction
getConversionRate_Reversed(from, to) ==
    IF from = to
    THEN Return(<<1, 1>>)
    ELSE IF RateKey(to, from) \notin DOMAIN exchangeRates
    THEN Throw("Exchange rate not available for " \o RateKey(to, from))
    ELSE Return(exchangeRates[RateKey(to, from)])

getConversionRate(from, to) ==
    IF from = to
    THEN Return(<<1, 1>>)
    ELSE IF RateKey(from, to) \notin DOMAIN exchangeRates
    THEN Throw("Exchange rate not available for " \o RateKey(from, to))
    ELSE Return(exchangeRates[RateKey(from, to)])

performConversion(amountInCents, from, to) ==
    LET rate == getConversionRate(from, to)
    IN  IF rate.threw
        THEN rate
        ELSE Return(MulRound(amountInCents, rate.value[1], rate.value[2]))

\* the try block of updateOutputAmount (lines 224-231): the conversion of a
\* parsed amount between two currencies under the table in use
Convert(amount, from, to) ==
    LET valid == validateInput(amount)
    IN  IF valid.threw
        THEN valid
        ELSE LET outputCents == performConversion(convertToCents(amount), from, to)
             IN  IF outputCents.threw
                 THEN outputCents
                 ELSE Return(ToFixed2(convertFromCents(outputCents.value)))

\* hideError() and showError(message): the message the banner displays
hideError == ""
showError(message) == message

\* updateOutputAmount(): what it leaves in the output field and the error
\* banner, for the parsed input and the selection it reads
updateOutputAmount(amount, from, to) ==
    IF IsNaN(amount) \/ IsZero(amount)
    THEN [output |-> Empty, error |-> hideError]
    ELSE LET r == Convert(amount, from, to)
         IN  IF r.threw
             THEN [output |-> Empty, error |-> showError(r.message)]
             ELSE [output |-> r.value, error |-> hideError]

-----------------------------------------------------------------------------
(* The price fetch *)

\* the snapshots a session of the form is run with: those of the one symbol
\* that is no fiat currency
SessionSnapshots == {s \in Snapshots : DOMAIN s \subseteq Tokens \ FIAT}

\* how fetch() and response.json() can end
FetchOutcomes ==
    {[kind |-> k, data |-> Null] : k \in {"network_error", "http_error", "bad_json"}}
    \cup {[kind |-> "ok", data |-> Null]}
    \cup {[kind |-> "ok", data |-> Some(s)] : s \in Snapshots}

SessionOutcomes ==
    {o \in FetchOutcomes : o.data = Null \/ o.data[1] \in SessionSnapshots}

\* fetchPrices without its catch: a failed fetch leaves it as an error
fetchPrices_NoCatch(outcome) ==
    IF pricesCache # Null
    THEN [result |-> pricesCache, cache |-> pricesCache, threw |-> FALSE]
    ELSE IF outcome.kind = "ok"
    THEN [result |-> outcome.data, cache |-> outcome.data, threw |-> FALSE]
    ELSE [result |-> Null, cache |-> pricesCache, threw |-> TRUE]

\* fetchPrices(): the value it resolves to, the cache it leaves, and whether
\* an error left it
fetchPrices(outcome) ==
    IF pricesCache # Null
    THEN [result |-> pricesCache, cache |-> pricesCache, threw |-> FALSE]
    ELSE IF outcome.kind = "ok"
    THEN [result |-> outcome.data, cache |-> outcome.data, threw |-> FALSE]
    ELSE [result |-> Null, cache |-> pricesCache, threw |-> FALSE]

\* the options updateAvailableCurrencies leaves in both selectors
AvailableCurrencies(prices) == FIAT \cup NonNullTokens(prices)

\* a selector rebuilt without its earlier value being restored
RestoreSelection_FirstOption(value, offered) == "USD"

\* a selector's value after its options were rebuilt: the earlier value if
\* it is still offered, else the first option
RestoreSelection(value, offered) == IF value \in offered THEN value ELSE "USD"

\* initializeRates run again whenever a fetch ends (a retry of the fetch)
initializeRates_Retry(outcome) ==
    LET fetched == fetchPrices(outcome)
        prices == fetched.result
    IN  /\ fetchState' = "done"
        /\ pricesCache' = fetched.cache
        /\ initRejected' = fetched.threw
        /\ IF ~fetched.threw /\ prices # Null
           THEN /\ exchangeRates' = buildExchangeRates(prices)
                /\ options' = FIAT \cup NonNullTokens(prices[1])
                /\ fromCurrency' = IF fromCurrency \in options' THEN fromCurrency ELSE "USD"
                /\ toCurrency' = IF toCurrency \in options' THEN toCurrency ELSE "USD"
                /\ fromIconAlt' = fromCurrency'
                /\ toIconAlt' = toCurrency'
           ELSE UNCHANGED <<exchangeRates, options, fromCurrency, toCurrency,
                            fromIconAlt, toIconAlt>>
        /\ UNCHANGED <<inputAmount, outputAmount, errorMessage, confirmDisabled,
                       pendingSubmits, toast, swaps>>
        /\ UNCHANGED exerciseVars

\* initializeRates(), from the point where the fetch ends
initializeRates(outcome) ==
    LET fetched == fetchPrices(outcome)
        prices == fetched.result
    IN  /\ fetchState = "pending"
        /\ fetchState' = "done"
        /\ pricesCache' = fetched.cache
        /\ initRejected' = fetched.threw
        /\ IF ~fetched.threw /\ prices # Null
           THEN /\ exchangeRates' = buildExchangeRates(prices)
                /\ options' = AvailableCurrencies(prices[1])
                /\ fromCurrency' = RestoreSelection(fromCurrency, options')
                /\ toCurrency' = RestoreSelection(toCurrency, options')
                /\ fromIconAlt' = fromCurrency'
                /\ toIconAlt' = toCurrency'
           ELSE UNCHANGED <<exchangeRates, options, fromCurrency, toCurrency,
                            fromIconAlt, toIconAlt>>
        /\ UNCHANGED <<inputAmount, outputAmount, errorMessage, confirmDisabled,
                       pendingSubmits, toast, swaps>>
        /\ UNCHANGED exerciseVars

-----------------------------------------------------------------------------
(* The form's handlers *)

\* the amounts a user types: not a number, the infinities, -1 and -0.001,
\* the amounts of 0..MaxCents cents, 0.004 and 0.005 (a fraction of a cent),
\* the ceiling, 1000000.001 and 1000001
TypedAmounts ==
    {NaN, Infinity, NegInfinity, Finite(-1, 0), Finite(-1, 999)}
    \cup {Finite(0, m) : m \in {10 * c : c \in 0..MaxCents} \cup {4, 5}}
    \cup {Finite(MAX_AMOUNT, 0), Finite(MAX_AMOUNT, 1), Finite(MAX_AMOUNT + 1, 0)}

\* the writes of updateOutputAmount() for the given input and selection
Refresh(amount, from, to) ==
    LET shown == updateOutputAmount(amount, from, to)
    IN  /\ outputAmount' = shown.output
        /\ errorMessage' = shown.error

\* the input listener also storing rate 1 for the selected pair in the table
InputAmount_StoresRate(typed) ==
    /\ inputAmount' = typed
    /\ swaps' = 0
    /\ outputAmount' = updateOutputAmount(typed, fromCurrency, toCurrency).output
    /\ errorMessage' = updateOutputAmount(typed, fromCurrency, toCurrency).error
    /\ exchangeRates' = exchangeRates @@ (RateKey(fromCurrency, toCurrency) :> <<1, 1>>)
    /\ UNCHANGED <<pricesCache, fetchState, initRejected, options,
                   fromCurrency, toCurrency, fromIconAlt, toIconAlt,
                   confirmDisabled, pendingSubmits, toast>>
    /\ UNCHANGED exerciseVars

\* 'input' event on #input-amount
InputAmount(typed) ==
    /\ inputAmount' = typed
    /\ swaps' = 0
    /\ Refresh(typed, fromCurrency, toCurrency)
    /\ UNCHANGED <<exchangeRates, pricesCache, fetchState, initRejected, options,
                   fromCurrency, toCurrency, fromIconAlt, toIconAlt,
                   confirmDisabled, pendingSubmits, toast>>
    /\ UNCHANGED exerciseVars

\* 'change' event on #from-currency
ChangeFrom(currency) ==
    /\ currency \in options
    /\ fromCurrency' = currency
    /\ fromIconAlt' = currency
    /\ toIconAlt' = toCurrency
    /\ Refresh(inputAmount, currency, toCurrency)
    /\ UNCHANGED <<exchangeRates, pricesCache, fetchState, initRejected, options,
                   toCurrency, inputAmount, confirmDisabled, pendingSubmits, toast,
                   swaps>>
    /\ UNCHANGED exerciseVars

\* 'change' event on #to-currency
ChangeTo(currency) ==
    /\ currency \in options
    /\ toCurrency' = currency
    /\ fromIconAlt' = fromCurrency
    /\ toIconAlt' = currency
    /\ Refresh(inputAmount, fromCurrency, currency)
    /\ UNCHANGED <<exchangeRates, pricesCache, fetchState, initRejected, options,
                   fromCurrency, inputAmount, confirmDisabled, pendingSubmits, toast,
                   swaps>>
    /\ UNCHANGED exerciseVars

swapCurrencies ==
    /\ swaps < MaxSwaps
    /\ swaps' = swaps + 1
    /\ fromCurrency' = toCurrency
    /\ toCurrency' = fromCurrency
    /\ inputAmount' = ParseFloat(outputAmount)
    /\ fromIconAlt' = fromCurrency'
    /\ toIconAlt' = toCurrency'
    /\ Refresh(inputAmount', fromCurrency', toCurrency')
    /\ UNCHANGED <<exchangeRates, pricesCache, fetchState, initRejected, options,
                   confirmDisabled, pendingSubmits, toast>>
    /\ UNCHANGED exerciseVars

\* new Intl.NumberFormat('en-US', {style: 'currency', currency}) accepts a
\* code of three letters and throws a RangeError for any other
WellFormedCurrencyCode(currency) == Len(currency) = 3

\* showLoading leaving the button enabled
showLoading_LeavesEnabled == FALSE

\* showLoading() and hideLoading(): the button's disabled flag
showLoading == TRUE
hideLoading == FALSE

\* handleSwapSubmit(), up to its await: a click on #confirm-swap (a disabled
\* button receives no click)
handleSwapSubmit ==
    /\ ~confirmDisabled
    /\ pendingSubmits < MaxPending
    /\ IF validateInput(inputAmount).threw
       THEN /\ toast' = "error"
            /\ confirmDisabled' = hideLoading
            /\ UNCHANGED pendingSubmits
       ELSE /\ confirmDisabled' = showLoading
            /\ pendingSubmits' = pendingSubmits + 1
            /\ UNCHANGED toast
    /\ UNCHANGED <<exchangeRates, pricesCache, fetchState, initRejected, options,
                   fromCurrency, toCurrency, fromIconAlt, toIconAlt, inputAmount,
                   outputAmount, errorMessage, swaps>>
    /\ UNCHANGED exerciseVars

\* handleSwapSubmit(), from the end of its 1500 ms delay
handleSwapSubmitResume ==
    /\ pendingSubmits > 0
    /\ pendingSubmits' = pendingSubmits - 1
    /\ toast' = IF WellFormedCurrencyCode(fromCurrency) THEN "success" ELSE "error"
    /\ confirmDisabled' = hideLoading
    /\ UNCHANGED <<exchangeRates, pricesCache, fetchState, initRejected, options,
                   fromCurrency, toCurrency, fromIconAlt, toIconAlt, inputAmount,
                   outputAmount, errorMessage, swaps>>
    /\ UNCHANGED exerciseVars

-----------------------------------------------------------------------------
(* The three sums of src/src/problem1/index.js.  Within the bound every    *)
(* value is an integer a JavaScript number holds exactly.                  *)

\* the sums are called with an integer of -MaxN..MaxN
MaxN == 8

\* the for loop of sumIteratively, entered with counter i and the sum so far
RECURSIVE sumIterativelyLoop(_, _, _)
sumIterativelyLoop(n, i, sum) ==
    IF i <= n THEN sumIterativelyLoop(n, i + 1, sum + i) ELSE sum

sumIteratively(n) == sumIterativelyLoop(n, 1, 0)

\* the length Array.from reads from {length: n}: ToLength of an integer
ToLength(len) == IF len <= 0 THEN 0 ELSE len

\* Array.from({length: n}, (_, i) => i + 1): the element at index i is i + 1
\* (index i of the array is position i + 1 of the sequence)
ArrayFrom(n) == [k \in 1..ToLength(n) |-> (k - 1) + 1]

\* array.reduce((sum, num) => sum + num, 0), from position k on
RECURSIVE reduce(_, _, _)
reduce(array, k, sum) ==
    IF k > Len(array) THEN sum ELSE reduce(array, k + 1, sum + array[k])

sumWithReduce(n) == reduce(ArrayFrom(n), 1, 0)

\* n * (n + 1) is even, the division is exact
sumWithFormula(n) == (n * (n + 1)) \div 2

SumFunctions == {"sumIteratively", "sumWithReduce", "sumWithFormula"}

\* a call of one of the three functions with the argument argN
CallSumIteratively ==
    /\ sums["sumIteratively"] = Null
    /\ sums' = [sums EXCEPT !["sumIteratively"] = Some(sumIteratively(argN))]
    /\ UNCHANGED <<exchangeRates, pricesCache, fetchState, initRejected, options,
                   fromCurrency, toCurrency, fromIconAlt, toIconAlt, inputAmount,
                   outputAmount, errorMessage, confirmDisabled, pendingSubmits,
                   toast, swaps, argN, balances, memo>>

CallSumWithReduce ==
    /\ sums["sumWithReduce"] = Null
    /\ sums' = [sums EXCEPT !["sumWithReduce"] = Some(sumWithReduce(argN))]
    /\ UNCHANGED <<exchangeRates, pricesCache, fetchState, initRejected, options,
                   fromCurrency, toCurrency, fromIconAlt, toIconAlt, inputAmount,
                   outputAmount, errorMessage, confirmDisabled, pendingSubmits,
                   toast, swaps, argN, balances, memo>>

CallSumWithFormula ==
    /\ sums["sumWithFormula"] = Null
    /\ sums' = [sums EXCEPT !["sumWithFormula"] = Some(sumWithFormula(argN))]
    /\ UNCHANGED <<exchangeRates, pricesCache, fetchState, initRejected, options,
                   fromCurrency, toCurrency, fromIconAlt, toIconAlt, inputAmount,
                   outputAmount, errorMessage, confirmDisabled, pendingSubmits,
                   toast, swaps, argN, balances, memo>>

-----------------------------------------------------------------------------
(* The balance list of src/src/problem3/refactored.tsx: the value the      *)
(* useMemo callback of WalletPage computes from the wallet's balances.     *)
(* A balance is modelled by the two fields the callback reads, amount and  *)
(* blockchain; two balances of one blockchain differ by their amount.      *)

\* a balance list has at most MaxBalances entries
MaxBalances == 3

\* the five blockchains getPriority names, and one it does not
Blockchains == {"Osmosis", "Ethereum", "Arbitrum", "Zilliqa", "Neo", "Bitcoin"}

\* the amounts of a balance: negative, zero, and two positive ones
Amounts == {-1, 0, 1, 2}

WalletBalance == [amount : Amounts, blockchain : Blockchains]

getPriority(blockchain) ==
    CASE blockchain = "Osmosis" -> 100
      [] blockchain = "Ethereum" -> 50
      [] blockchain = "Arbitrum" -> 30
      [] blockchain = "Zilliqa" -> 20
      [] blockchain = "Neo" -> 20
      [] OTHER -> -99

\* the filter callback keeping the balances that are not positive
filterCallback_NotPositive(balance) ==
    LET balancePriority == getPriority(balance.blockchain)
    IN  balancePriority > -99 /\ balance.amount <= 0

\* the filter callback (lines 43-46)
filterCallback(balance) ==
    LET balancePriority == getPriority(balance.blockchain)
    IN  balancePriority > -99 /\ balance.amount > 0

\* the sort callback (lines 47-57)
sortCallback(leftBalance, rightBalance) ==
    LET leftPriority == getPriority(leftBalance.blockchain)
        rightPriority == getPriority(rightBalance.blockchain)
    IN  IF leftPriority > rightPriority THEN -1
        ELSE IF rightPriority > leftPriority THEN 1
        ELSE 0

\* Array.prototype.sort is a stable sort (ECMAScript 2019): an entry is
\* placed before the first sorted entry that the callback orders after it,
\* so behind every entry the callback compares as equal
InsertSorted(sorted, balance) ==
    LET after == {k \in 1..Len(sorted) : sortCallback(balance, sorted[k]) < 0}
        at == IF after = {} THEN Len(sorted) + 1
              ELSE CHOOSE k \in after : \A j \in after : k <= j
    IN  SubSeq(sorted, 1, at - 1) \o <<balance>> \o SubSeq(sorted, at, Len(sorted))

RECURSIVE ArraySort(_)
ArraySort(array) ==
    IF array = <<>>
    THEN <<>>
    ELSE InsertSorted(ArraySort(SubSeq(array, 1, Len(array) - 1)), array[Len(array)])

\* the useMemo callback (lines 39-58) for the balances the hook gave
filteredSortedBalances ==
    IF balances = Null
    THEN <<>>
    ELSE ArraySort(SelectSeq(balances[1], filterCallback))

\* a render of WalletPage: the callback runs and useMemo holds its value
WalletPage ==
    /\ memo = Null
    /\ memo' = Some(filteredSortedBalances)
    /\ UNCHANGED <<exchangeRates, pricesCache, fetchState, initRejected, options,
                   fromCurrency, toCurrency, fromIconAlt, toIconAlt, inputAmount,
                   outputAmount, errorMessage, confirmDisabled, pendingSubmits,
                   toast, swaps, argN, sums, balances>>

-----------------------------------------------------------------------------
(* The session: the state once the DOMContentLoaded handler has run (the    *)
(* fetch is in flight, the listeners are attached), then any interleaving  *)
(* of the user's events with the end of the fetch and of the submit delay. *)

InitForm ==
    /\ exchangeRates = MOCK_RATES
    /\ pricesCache = Null
    /\ fetchState = "pending"
    /\ initRejected = FALSE
    /\ options = FIAT
    /\ fromCurrency \in FIAT
    /\ toCurrency \in FIAT
    /\ fromIconAlt = fromCurrency
    /\ toIconAlt = toCurrency
    /\ inputAmount = NaN
    /\ outputAmount = Empty
    /\ errorMessage = ""
    /\ confirmDisabled = FALSE
    /\ pendingSubmits = 0
    /\ toast = "none"
    /\ swaps = 0

\* no sum has been called, no balance list has been given
NoSums == argN = 0 /\ sums = [f \in SumFunctions |-> Null]
NoBalances == balances = Null /\ memo = Null

Init == InitForm /\ NoSums /\ NoBalances

Next ==
    \/ \E outcome \in SessionOutcomes : initializeRates(outcome)
    \/ \E typed \in TypedAmounts : InputAmount(typed)
    \/ \E currency \in options : ChangeFrom(currency)
    \/ \E currency \in options : ChangeTo(currency)
    \/ swapCurrencies
    \/ handleSwapSubmit
    \/ handleSwapSubmitResume

Spec == Init /\ [][Next]_vars

\* The conversion side alone: the fetch and the events that convert.  The
\* submit handler writes confirmDisabled, pendingSubmits and toast only, and
\* no conversion reads them.
NextConversion ==
    \/ \E outcome \in SessionOutcomes : initializeRates(outcome)
    \/ \E typed \in TypedAmounts : InputAmount(typed)
    \/ \E currency \in options : ChangeFrom(currency)
    \/ \E currency \in options : ChangeTo(currency)
    \/ swapCurrencies

SpecConversion == Init /\ [][NextConversion]_vars

\* The rate table builder alone, under every fetch outcome
NextRates == \E outcome \in FetchOutcomes : initializeRates(outcome)

SpecRates == Init /\ [][NextRates]_vars

\* The display under a fetch that may price EUR as well as USDC (so that it
\* derives rates for keys the static table holds), from a page whose
\* selectors offer the four fiat currencies or these and USDC: the markup
\* of the page sets the first options, the fetch rebuilds them
DisplaySnapshots == {s \in Snapshots : DOMAIN s \subseteq {"EUR", "USDC"}}

DisplayOutcomes ==
    {o \in FetchOutcomes : o.data = Null \/ o.data[1] \in DisplaySnapshots}

InitDisplay ==
    /\ exchangeRates = MOCK_RATES
    /\ pricesCache = Null
    /\ fetchState = "pending"
    /\ initRejected = FALSE
    /\ options \in {FIAT, FIAT \cup {"USDC"}}
    /\ fromCurrency \in options
    /\ toCurrency \in options
    /\ fromIconAlt = fromCurrency
    /\ toIconAlt = toCurrency
    /\ inputAmount = NaN
    /\ outputAmount = Empty
    /\ errorMessage = ""
    /\ confirmDisabled = FALSE
    /\ pendingSubmits = 0
    /\ toast = "none"
    /\ swaps = 0
    /\ NoSums
    /\ NoBalances

NextDisplay ==
    \/ \E outcome \in DisplayOutcomes : initializeRates(outcome)
    \/ \E typed \in TypedAmounts : InputAmount(typed)
    \/ \E currency \in options : ChangeFrom(currency)
    \/ \E currency \in options : ChangeTo(currency)
    \/ swapCurrencies

SpecDisplay == InitDisplay /\ [][NextDisplay]_vars

\* The three sums alone, called in any order with one argument; the form
\* stays as loaded
InitSums ==
    /\ InitForm
    /\ fromCurrency = "USD" /\ toCurrency = "USD"
    /\ argN \in -MaxN..MaxN
    /\ sums = [f \in SumFunctions |-> Null]
    /\ NoBalances

NextSums == CallSumIteratively \/ CallSumWithReduce \/ CallSumWithFormula

SpecSums == InitSums /\ [][NextSums]_vars

\* the lists useWalletBalances() can give
BalanceLists == UNION {[1..k -> WalletBalance] : k \in 0..MaxBalances}

\* The balance list alone: one render for the balances given (no array, or a
\* list); the form stays as loaded
InitBalances ==
    /\ InitForm
    /\ fromCurrency = "USD" /\ toCurrency = "USD"
    /\ NoSums
    /\ balances \in {Null} \cup {Some(list) : list \in BalanceLists}
    /\ memo = Null

NextBalances == WalletPage

SpecBalances == InitBalances /\ [][NextBalances]_vars

-----------------------------------------------------------------------------
(* Vocabulary of the properties *)

\* the currency codes the properties range over; "XAU" is in no table key
Codes == FIAT \cup Tokens \cup {"XAU"}

\* 0 <= v <= 1000000, stated on the value
InRange(v) ==
    /\ v.kind = "num"
    /\ v.units >= 0
    /\ v.units < MAX_AMOUNT \/ (v.units = MAX_AMOUNT /\ v.milli = 0)

\* v has at most two decimal places
WholeCents(v) == v.kind = "num" /\ v.milli % 10 = 0

\* the text shows exactly the value v
Shows(text, v) ==
    text.kind = "dec" /\ v.kind = "num" /\ text.units = v.units /\ 10 * text.cents = v.milli

\* amount * rate rounded to 2 decimal places, as <<units, cents>>
RoundedProduct(v, rate) == MulRound(v.units * 1000 + v.milli, rate[1], 10 * rate[2])

\* two amounts <<units, cents>> differ by at most one cent
WithinOneCent(a, b) ==
    /\ a[1] - b[1] \in -1..1
    /\ (a[1] - b[1]) * 100 + (a[2] - b[2]) \in -1..1

RateUnavailable(from, to) == "Exchange rate not available for " \o RateKey(from, to)

-----------------------------------------------------------------------------
(* C1: for every pair of distinct codes whose key FROM_TO is missing from  *)
(* the table in use, the rate lookup fails with the error "Exchange rate   *)
(* not available for FROM_TO" and performConversion yields no number; the  *)
(* form, for a valid non-zero input on such a pair, shows that error and   *)
(* an empty output.                                                        *)
C1_MissingRateFails ==
    /\ \A from \in Codes, to \in Codes :
          (from # to /\ RateKey(from, to) \notin DOMAIN exchangeRates) =>
             /\ getConversionRate(from, to).threw
             /\ getConversionRate(from, to).message = RateUnavailable(from, to)
             /\ performConversion(convertToCents(Finite(1, 0)), from, to).threw
    /\ ( /\ InRange(inputAmount) /\ ~IsZero(inputAmount)
         /\ fromCurrency # toCurrency
         /\ RateKey(fromCurrency, toCurrency) \notin DOMAIN exchangeRates )
       => /\ outputAmount = Empty
          /\ errorMessage = RateUnavailable(fromCurrency, toCurrency)

\* the form shows the error for USDC -> EUR, a pair the table lacks
C1_Witness ==
    /\ fromCurrency = "USDC" /\ toCurrency = "EUR"
    /\ "USDC_EUR" \notin DOMAIN exchangeRates
    /\ inputAmount = Finite(MAX_AMOUNT, 0)
    /\ outputAmount = Empty
    /\ errorMessage = "Exchange rate not available for USDC_EUR"

(* C2 as stated: for every pair of the static table and every valid        *)
(* non-zero amount, also one with more than two decimal places, the result *)
(* the form shows is within one cent of amount * rate rounded to 2 places. *)
C2_WithinOneCentAnyAmount ==
    ( /\ InRange(inputAmount) /\ ~IsZero(inputAmount)
      /\ fromCurrency # toCurrency
      /\ RateKey(fromCurrency, toCurrency) \in DOMAIN MOCK_RATES )
    => /\ outputAmount.kind = "dec"
       /\ WithinOneCent(<<outputAmount.units, outputAmount.cents>>,
                        RoundedProduct(inputAmount,
                                       MOCK_RATES[RateKey(fromCurrency, toCurrency)]))

(* C2, amended: for every pair of the static table and every valid         *)
(* non-zero amount with at most two decimal places, the result the form    *)
(* shows is within one cent of amount * rate rounded to 2 places.          *)
C2_WithinOneCentWholeCents ==
    ( /\ InRange(inputAmount) /\ ~IsZero(inputAmount) /\ WholeCents(inputAmount)
      /\ fromCurrency # toCurrency
      /\ RateKey(fromCurrency, toCurrency) \in DOMAIN MOCK_RATES )
    => /\ outputAmount.kind = "dec"
       /\ WithinOneCent(<<outputAmount.units, outputAmount.cents>>,
                        RoundedProduct(inputAmount,
                                       MOCK_RATES[RateKey(fromCurrency, toCurrency)]))

\* the form shows 1000000 GBP as 150750000.00 JPY
C2_Witness ==
    /\ inputAmount = Finite(MAX_AMOUNT, 0)
    /\ fromCurrency = "GBP" /\ toCurrency = "JPY"
    /\ outputAmount = Text2(150750000, 0)

(* C3 as stated: for every valid non-zero amount and every currency c, the *)
(* form shows the conversion from c to c as the input amount unchanged.    *)
C3_IdentityAnyAmount ==
    (InRange(inputAmount) /\ ~IsZero(inputAmount) /\ fromCurrency = toCurrency)
    => Shows(outputAmount, inputAmount)

(* C3, amended: for a valid amount with at most two decimal places (0      *)
(* included) and every currency c - also one in no key of the table - the  *)
(* conversion from c to c returns the amount unchanged, without a table    *)
(* lookup; the form shows it for every such amount other than 0.           *)
C3_IdentityWholeCents ==
    /\ (InRange(inputAmount) /\ WholeCents(inputAmount)) =>
          \A c \in Codes :
             /\ ~Convert(inputAmount, c, c).threw
             /\ Shows(Convert(inputAmount, c, c).value, inputAmount)
    /\ ( /\ InRange(inputAmount) /\ ~IsZero(inputAmount) /\ WholeCents(inputAmount)
         /\ fromCurrency = toCurrency )
       => Shows(outputAmount, inputAmount)

\* the form shows 1000000 USDC as 1000000.00 USDC while no key names USDC
C3_Witness ==
    /\ fromCurrency = "USDC" /\ toCurrency = "USDC"
    /\ \A c \in Codes : /\ RateKey("USDC", c) \notin DOMAIN exchangeRates
                         /\ RateKey(c, "USDC") \notin DOMAIN exchangeRates
    /\ inputAmount = Finite(MAX_AMOUNT, 0)
    /\ outputAmount = Text2(MAX_AMOUNT, 0)

(* C4: validateInput accepts a value exactly when it is a number with      *)
(* 0 <= value <= 1000000 and throws for every other value (not a number,   *)
(* NaN, negative, above the ceiling, infinite); so for an input that is    *)
(* neither NaN nor 0 the form shows a validation error exactly when the    *)
(* input is out of that range.                                             *)
C4_ValidateInputRange ==
    /\ \A value \in TypedAmounts \cup {NotANumber} :
          /\ ~validateInput(value).threw <=> InRange(value)
          /\ ~validateInput(value).threw => validateInput(value).value = value
    /\ (~IsNaN(inputAmount) /\ ~IsZero(inputAmount)) =>
          (errorMessage \in {"Input must be a valid number",
                             "Input must be non-negative",
                             "Amount too large"}
             <=> ~InRange(inputAmount))

\* the ceiling itself is accepted and converted
C4_Witness ==
    /\ inputAmount = Finite(MAX_AMOUNT, 0)
    /\ errorMessage = ""
    /\ outputAmount.kind = "dec"

-----------------------------------------------------------------------------
\* t has a non-null, non-zero price in snapshot s
Priced(s, t) == t \in DOMAIN s /\ s[t] # Null /\ s[t][1] # 0

\* two fractions are the same rate
SameRate(a, b) == a[1] * b[2] = b[1] * a[2]

\* the keys of the table in use that the static table lacks
DerivedKeys == DOMAIN exchangeRates \ DOMAIN MOCK_RATES

\* key k names currency t on either side
Names(k, t) == \E c \in Codes : k = RateKey(t, c) \/ k = RateKey(c, t)

\* the table built from snapshot s holds price[from] / price[to] for every
\* ordered pair of distinct priced tokens whose key is no static key
PricedPairsDerived(s) ==
    \A from \in DOMAIN s, to \in DOMAIN s :
       ( /\ from # to /\ Priced(s, from) /\ Priced(s, to)
         /\ RateKey(from, to) \notin DOMAIN MOCK_RATES )
       => /\ RateKey(from, to) \in DOMAIN exchangeRates
          /\ SameRate(exchangeRates[RateKey(from, to)], <<s[from][1], s[to][1]>>)

C6_StaticRatesWin ==
    (fetchState = "done" /\ pricesCache # Null) =>
       \A k \in DOMAIN MOCK_RATES :
          k \in DOMAIN exchangeRates /\ exchangeRates[k] = MOCK_RATES[k]

\* the snapshot prices USD at 1 and EUR at 2, and USD_EUR is still 0.85
C6_Witness ==
    /\ pricesCache # Null
    /\ Priced(pricesCache[1], "USD") /\ pricesCache[1]["USD"] = Some(1)
    /\ Priced(pricesCache[1], "EUR") /\ pricesCache[1]["EUR"] = Some(2)
    /\ exchangeRates["USD_EUR"] = <<85, 100>>

(* C7: once the fetch has ended without a usable snapshot - it failed, or  *)
(* the snapshot is absent or empty - the table in use is exactly the       *)
(* static table; fetchPrices turns every failure into a null result and    *)
(* the promise of initializeRates never rejects.                           *)
C7_StaticFallback ==
    /\ ~initRejected
    /\ \A outcome \in SessionOutcomes :
          /\ ~fetchPrices(outcome).threw
          /\ (pricesCache = Null /\ outcome.kind # "ok") => fetchPrices(outcome).result = Null
    /\ (fetchState = "done" /\ (pricesCache = Null \/ DOMAIN pricesCache[1] = {}))
          => exchangeRates = MOCK_RATES

\* the fetch ended without a snapshot and a conversion used the static table
C7_Witness ==
    /\ fetchState = "done" /\ pricesCache = Null
    /\ exchangeRates = MOCK_RATES
    /\ fromCurrency = "USD" /\ toCurrency = "EUR"
    /\ inputAmount = Finite(MAX_AMOUNT, 0)
    /\ outputAmount = Text2(850000, 0)

(* C8: while the fetch is pending the table in use is the static table and *)
(* no snapshot is cached (events in that window convert with it); the      *)
(* table and the cached snapshot change only in the step that ends the     *)
(* fetch, and that step is taken at most once.                             *)
C8_WrittenAtMostOnce ==
    /\ [](fetchState = "pending" => (exchangeRates = MOCK_RATES /\ pricesCache = Null))
    /\ [][ /\ (exchangeRates' # exchangeRates \/ pricesCache' # pricesCache)
               => (fetchState = "pending" /\ fetchState' = "done")
           /\ fetchState = "done" => fetchState' = "done" ]_vars

\* a result converted before the fetch ended is on display after the fetch
\* has replaced the table
C8_Witness ==
    /\ fetchState = "done"
    /\ pricesCache # Null
    /\ exchangeRates # MOCK_RATES
    /\ inputAmount = Finite(MAX_AMOUNT, 0)
    /\ fromCurrency = "USD" /\ toCurrency = "EUR"
    /\ outputAmount = Text2(850000, 0)

(* C9: at most one submit is suspended at its delay, the confirm button is *)
(* disabled exactly while one is, and it is enabled again whenever none    *)
(* is (after a confirmed swap and after an error).                         *)
C9_OneSubmitPending ==
    /\ pendingSubmits \in {0, 1}
    /\ confirmDisabled <=> pendingSubmits = 1

\* a submit is suspended, the button disabled, after an earlier submit ended
\* in an error
C9_Witness ==
    /\ pendingSubmits = 1
    /\ confirmDisabled
    /\ toast = "error"

(* C10: a step that converts - one that changes the input, the selection,  *)
(* the output or the error shown - leaves the table and the cached         *)
(* snapshot as they were, and running updateOutputAmount again on the      *)
(* input and selection it leaves, under that same table, gives the output  *)
(* and the error it left.                                                  *)
C10_ConversionLeavesTable ==
    [][ ( \/ inputAmount' # inputAmount
          \/ fromCurrency' # fromCurrency
          \/ toCurrency' # toCurrency
          \/ outputAmount' # outputAmount
          \/ errorMessage' # errorMessage )
        => /\ exchangeRates' = exchangeRates
           /\ pricesCache' = pricesCache
           /\ updateOutputAmount(inputAmount', fromCurrency', toCurrency')
                 = [output |-> outputAmount', error |-> errorMessage'] ]_vars

\* a conversion that failed on a missing rate, with the table as built
C10_Witness ==
    /\ errorMessage = "Exchange rate not available for USDC_JPY"
    /\ outputAmount = Empty
    /\ pricesCache = Some(("USDC" :> Some(0)))
    /\ exchangeRates = MOCK_RATES

-----------------------------------------------------------------------------
\* 1 + 2 + ... + m, counted: the number of pairs <<i, j>> with 1 <= j <= i <= m
SumOneTo(m) == Cardinality({p \in (1..m) \X (1..m) : p[2] <= p[1]})

(* C11 as stated: for every integer n the three functions return the same  *)
(* value, and for n >= 1 that value is 1 + 2 + ... + n.                    *)
C11_SumsInterchangeable ==
    /\ \A f \in SumFunctions, g \in SumFunctions :
          (sums[f] # Null /\ sums[g] # Null) => sums[f] = sums[g]
    /\ argN >= 1 =>
          \A f \in SumFunctions : sums[f] # Null => sums[f] = Some(SumOneTo(argN))

-----------------------------------------------------------------------------
\* the blockchains of a known priority, from the highest priority to the
\* lowest; Zilliqa and Neo share the last one
PriorityGroups == <<{"Osmosis"}, {"Ethereum"}, {"Arbitrum"}, {"Zilliqa", "Neo"}>>

\* the entries of list with a positive amount and a blockchain of group g,
\* in the order of list
PositiveOfGroup(list, g) ==
    LET InGroup(balance) == balance.blockchain \in PriorityGroups[g] /\ balance.amount > 0
    IN  SelectSeq(list, InGroup)

(* C12: for every list of balances, filteredSortedBalances holds exactly   *)
(* the balances with a blockchain of known priority and an amount greater  *)
(* than 0, by non-increasing priority, and balances of equal priority      *)
(* (Zilliqa and Neo) in the order the list gave them: it is the entries of *)
(* priority 100, then those of 50, of 30 and of 20, each in list order.    *)
C12_FilteredSortedStable ==
    (balances # Null /\ memo # Null) =>
       memo[1] = PositiveOfGroup(balances[1], 1) \o PositiveOfGroup(balances[1], 2)
                    \o PositiveOfGroup(balances[1], 3) \o PositiveOfGroup(balances[1], 4)

\* Neo before Zilliqa in the list stays before it, behind Osmosis
C12_Witness ==
    /\ balances = Some(<<[amount |-> 1, blockchain |-> "Neo"],
                         [amount |-> 2, blockchain |-> "Zilliqa"],
                         [amount |-> 1, blockchain |-> "Osmosis"]>>)
    /\ memo = Some(<<[amount |-> 1, blockchain |-> "Osmosis"],
                     [amount |-> 1, blockchain |-> "Neo"],
                     [amount |-> 2, blockchain |-> "Zilliqa"]>>)

-----------------------------------------------------------------------------
(* C13: after any sequence of input edits, selector changes, direction     *)
(* swaps and the end of the rate fetch, whenever the output field is not   *)
(* empty its text is the conversion of the current input amount between    *)
(* the currencies now selected under the table now in use.                 *)
C13_DisplayNeverStale ==
    outputAmount # Empty =>
       Convert(inputAmount, fromCurrency, toCurrency) = Return(outputAmount)

\* the fetch has priced EUR at 2 and left the selectors without USDC, and
\* 1000000 USD is on display as 850000.00 EUR, the static rate
C13_Witness ==
    /\ fetchState = "done"
    /\ pricesCache # Null
    /\ Priced(pricesCache[1], "EUR") /\ pricesCache[1]["EUR"] = Some(2)
    /\ "USDC" \notin options
    /\ "EUR_USDC" \notin DOMAIN exchangeRates
    /\ inputAmount = Finite(MAX_AMOUNT, 0)
    /\ fromCurrency = "USD" /\ toCurrency = "EUR"
    /\ outputAmount = Text2(850000, 0)

====
